---- MODULE Spec2Model ----
(***************************************************************************)
(* A model of cv-filler.py, the cover-letter CLI: the placeholder scanner, *)
(* the value collector, the run-local substitutor, the PDF export and the  *)
(* session loop.  Python strings are sequences of one-character strings,   *)
(* so that scanning, replacing, stripping and formatting are computed      *)
(* character by character as the code computes them.                       *)
(***************************************************************************)
EXTENDS Integers, Sequences, FiniteSets, TLC

VARIABLES
    pc,            \* position of the program
    templates,     \* list_templates(): the sorted template documents on disk
    doc,           \* the Document in memory
    orig,          \* the Document as it was loaded (before fill_template)
    placeholders,  \* result of extract_placeholders
    values,        \* the dict built by prompt_for_values, in insertion order
    prompted,      \* the names input() was called for, in order
    typed,         \* the lines typed at those prompts
    outputs,       \* OUTPUTS_DIR: file name -> content
    tmpdir,        \* the temporary directory: the set of file names in it
    today,         \* the local date datetime.now() reports
    clock,         \* the date at each iteration of the last prompt_for_values
    exports,       \* number of save_as_pdf calls made so far
    last           \* what the last save_as_pdf call saw and returned

vars == <<pc, templates, doc, orig, placeholders, values, prompted, typed,
          outputs, tmpdir, today, clock, exports, last>>

(***************************************************************************)
(* Bounds of the model.                                                    *)
(***************************************************************************)
MaxExports == 2
MaxSessionExports == 1
MaxTextLen == 4
MaxRunLen == 3
MaxNames == 2

(***************************************************************************)
(* Characters and Python's str operations.                                 *)
(***************************************************************************)
\* The characters of the model in code-point order: the control characters
\* U+0009..U+000D and U+001C..U+001F, the printable ASCII characters (the
\* grave accent is left out), and U+0085, U+00A0 and U+1680.
Chars ==
    <<"\t", "\n", "", "\f", "\r", "", "", "", "",
      " ", "!", "\"", "#", "$", "%", "&", "'", "(", ")", "*", "+",
      ",", "-", ".", "/", "0", "1", "2", "3", "4", "5", "6", "7", "8", "9",
      ":", ";", "<", "=", ">", "?", "@",
      "A", "B", "C", "D", "E", "F", "G", "H", "I", "J", "K", "L", "M",
      "N", "O", "P", "Q", "R", "S", "T", "U", "V", "W", "X", "Y", "Z",
      "[", "\\", "]", "^", "_",
      "a", "b", "c", "d", "e", "f", "g", "h", "i", "j", "k", "l", "m",
      "n", "o", "p", "q", "r", "s", "t", "u", "v", "w", "x", "y", "z",
      "{", "|", "}", "~", "", " ", " ">>

\* The rank of c in code-point order: Ord(c) < Ord(d) exactly when ord(c) < ord(d).
OrdTable == [c \in {Chars[i] : i \in 1..Len(Chars)} |-> CHOOSE i \in 1..Len(Chars) : Chars[i] = c]

Ord(c) == OrdTable[c]

\* str.lower() on one character: "A".."Z" move to "a".."z".
LowerTable ==
    [c \in {Chars[i] : i \in 1..Len(Chars)} |->
        IF Ord(c) >= Ord("A") /\ Ord(c) <= Ord("Z")
        THEN Chars[Ord(c) + (Ord("a") - Ord("A"))]
        ELSE c]

LowerChar(c) == LowerTable[c]

Lower(s) == [i \in 1..Len(s) |-> LowerChar(s[i])]

\* The characters str.strip() removes (str.isspace): U+0009..U+000D,
\* U+001C..U+001F, the space, U+0085, U+00A0 and U+1680. Python also removes
\* U+2000..U+200A, U+2028, U+2029, U+202F, U+205F and U+3000, which cannot be
\* written in a string of this module and occur in none of its inputs.
Whitespace ==
    {"\t", "\n", "", "\f", "\r", "", "", "", "", " ", "", " ", " "}

\* str.strip(): drop leading and trailing whitespace.
Strip(s) ==
    LET keep == {i \in 1..Len(s) : s[i] \notin Whitespace}
    IN  IF keep = {} THEN <<>>
        ELSE LET lo == CHOOSE i \in keep : \A j \in keep : i <= j
                 hi == CHOOSE i \in keep : \A j \in keep : i >= j
             IN  SubSeq(s, lo, hi)

\* The Python operator: sub in s.
Contains(s, sub) ==
    \E i \in 1..(Len(s) - Len(sub) + 1) : SubSeq(s, i, i + Len(sub) - 1) = sub

\* str.replace(old, new) for a non-empty old: leftmost non-overlapping matches.
RECURSIVE StrReplace(_, _, _)
StrReplace(s, old, new) ==
    IF Len(s) < Len(old) THEN s
    ELSE IF SubSeq(s, 1, Len(old)) = old
         THEN new \o StrReplace(SubSeq(s, Len(old) + 1, Len(s)), old, new)
         ELSE <<s[1]>> \o StrReplace(Tail(s), old, new)

\* Python's str ordering: lexicographic by code point.
RECURSIVE StrLess(_, _)
StrLess(a, b) ==
    IF b = <<>> THEN FALSE
    ELSE IF a = <<>> THEN TRUE
    ELSE IF a[1] # b[1] THEN Ord(a[1]) < Ord(b[1])
    ELSE StrLess(Tail(a), Tail(b))

\* sorted(set_of_strings)
RECURSIVE Sorted(_)
Sorted(S) ==
    IF S = {} THEN <<>>
    ELSE LET m == CHOOSE x \in S : \A y \in S : y = x \/ StrLess(x, y)
         IN  <<m>> \o Sorted(S \ {m})

Range(f) == {f[i] : i \in DOMAIN f}

Reverse(s) == [i \in 1..Len(s) |-> s[Len(s) + 1 - i]]

RECURSIVE Concat(_)
Concat(ss) == IF ss = <<>> THEN <<>> ELSE Head(ss) \o Concat(Tail(ss))

Digits == <<"0", "1", "2", "3", "4", "5", "6", "7", "8", "9">>

\* str(n) for n >= 0, as the f-string formats the counter.
RECURSIVE IntToStr(_)
IntToStr(n) ==
    IF n < 10 THEN <<Digits[n + 1]>>
    ELSE IntToStr(n \div 10) \o <<Digits[(n % 10) + 1]>>

\* A number zero-padded to w digits, as %Y, %m and %d print it.
RECURSIVE Pad(_, _)
Pad(n, w) == IF w = 0 THEN <<>> ELSE Pad(n \div 10, w - 1) \o <<Digits[(n % 10) + 1]>>

\* strftime("%Y-%m-%d")
FormatDate(d) == Pad(d.year, 4) \o <<"-">> \o Pad(d.month, 2) \o <<"-">> \o Pad(d.day, 2)

(***************************************************************************)
(* Documents: a Document has top-level paragraphs and tables; a table is a *)
(* sequence of rows, a row a sequence of cells, a cell a sequence of       *)
(* paragraphs; a paragraph is a sequence of runs; a run has a text and     *)
(* formatting (here: bold).                                                *)
(***************************************************************************)
\* paragraph.text: the run texts joined.
ParagraphText(paragraph) == Concat([i \in DOMAIN paragraph |-> paragraph[i].text])

\* The paragraphs of every cell of every row of every table, as the nested
\* loops over doc.tables visit them.
TableParagraphs(d) ==
    UNION {UNION {UNION {Range(cell) : cell \in Range(row)} : row \in Range(table)}
           : table \in Range(d.tables)}

(***************************************************************************)
(* Placeholder scanner.                                                    *)
(***************************************************************************)
\* The end of a match of PLACEHOLDER_PATTERN, \[([^\]]+)\], that starts at
\* position i of text, or 0 when there is none: text[i] is "[", at least one
\* character other than "]" follows, and the match ends at the first "]".
MatchEndLoose(text, i) ==
    IF i + 1 <= Len(text) /\ text[i] = "[" /\ \E e \in (i + 1)..Len(text) : text[e] = "]"
    THEN CHOOSE e \in (i + 1)..Len(text) :
             text[e] = "]" /\ \A k \in (i + 1)..(e - 1) : text[k] # "]"
    ELSE 0

MatchEnd(text, i) ==
    IF i + 2 <= Len(text) /\ text[i] = "[" /\ text[i + 1] # "]"
       /\ \E e \in (i + 2)..Len(text) : text[e] = "]"
    THEN CHOOSE e \in (i + 2)..Len(text) :
             text[e] = "]" /\ \A k \in (i + 2)..(e - 1) : text[k] # "]"
    ELSE 0

\* PLACEHOLDER_PATTERN.findall(text): the captured names of the leftmost
\* non-overlapping matches, scanning from position i.
RECURSIVE FindFrom(_, _)
FindFrom(text, i) ==
    IF i > Len(text) THEN <<>>
    ELSE LET e == MatchEnd(text, i)
         IN  IF e = 0 THEN FindFrom(text, i + 1)
             ELSE <<SubSeq(text, i + 1, e - 1)>> \o FindFrom(text, e + 1)

FindAll(text) == FindFrom(text, 1)

\* PLACEHOLDER_PATTERN.search(text) is not None
Search(text) == \E i \in 1..Len(text) : MatchEnd(text, i) # 0

extract_placeholders_from_text(text) == Range(FindAll(text))

extract_placeholders(d) ==
    Sorted(UNION {extract_placeholders_from_text(ParagraphText(para))
                  : para \in Range(d.paragraphs)}
           \cup
           UNION {extract_placeholders_from_text(ParagraphText(para))
                  : para \in TableParagraphs(d)})

(***************************************************************************)
(* Value collector.  A dict is a sequence of key/value entries in          *)
(* insertion order; assigning to a key already present keeps its place.    *)
(***************************************************************************)
Keys(d) == {d[i].key : i \in DOMAIN d}

DictSet(d, k, v) ==
    IF k \in Keys(d)
    THEN [i \in DOMAIN d |-> IF d[i].key = k THEN [key |-> k, value |-> v] ELSE d[i]]
    ELSE Append(d, [key |-> k, value |-> v])

\* values.get(k): the value, or the empty (falsy) result when k is absent.
DictGet(d, k) ==
    IF k \in Keys(d) THEN (CHOOSE e \in Range(d) : e.key = k).value ELSE <<>>

sDate == <<"d", "a", "t", "e">>

IsDateNameCaseSensitive(placeholder) == placeholder = sDate

\* placeholder.lower() == "date"
IsDateName(placeholder) == Lower(placeholder) = sDate

\* input(...).strip()
ReadValue(line) == Strip(line)

\* The loop of prompt_for_values from placeholder i on: inputs are the lines
\* the user has yet to type, vals the dict so far, asked the prompts so far,
\* and now[i] the date datetime.now() reports during iteration i (the loop
\* waits in input(), so the date can change between two iterations).
RECURSIVE PromptLoop(_, _, _, _, _, _)
PromptLoop(names, i, inputs, vals, asked, now) ==
    IF i > Len(names) THEN [values |-> vals, prompted |-> asked]
    ELSE IF IsDateName(names[i])
         THEN PromptLoop(names, i + 1, inputs,
                         DictSet(vals, names[i], FormatDate(now[i])), asked, now)
         ELSE PromptLoop(names, i + 1, Tail(inputs),
                         DictSet(vals, names[i], ReadValue(Head(inputs))),
                         Append(asked, names[i]), now)

prompt_for_values(names, inputs, now) == PromptLoop(names, 1, inputs, <<>>, <<>>, now)

\* The number of lines prompt_for_values reads for these names.
PromptCount(names) == Cardinality({i \in DOMAIN names : ~IsDateName(names[i])})

(***************************************************************************)
(* Run-preserving substitutor.                                             *)
(***************************************************************************)
\* f"[{placeholder}]"
Bracketed(placeholder) == <<"[">> \o placeholder \o <<"]">>

\* One pass of the inner loop body: replace the bracketed key in the run's
\* text when it occurs there; only the text of the run changes.
ReplaceKeySkipEmpty(run, entry) ==
    IF entry.value # <<>> /\ Contains(run.text, Bracketed(entry.key))
    THEN [run EXCEPT !.text = StrReplace(@, Bracketed(entry.key), entry.value)]
    ELSE run

ReplaceKey(run, entry) ==
    IF Contains(run.text, Bracketed(entry.key))
    THEN [run EXCEPT !.text = StrReplace(@, Bracketed(entry.key), entry.value)]
    ELSE run

\* for placeholder, value in values.items(): ... on one run, from entry j on.
RECURSIVE ReplaceInRun(_, _, _)
ReplaceInRun(run, vals, j) ==
    IF j > Len(vals) THEN run
    ELSE ReplaceInRun(ReplaceKey(run, vals[j]), vals, j + 1)

\* A replacement made on the paragraph's joined text, kept in its first run.
replace_in_paragraph_joined(paragraph, vals) ==
    IF ~Search(ParagraphText(paragraph)) THEN paragraph
    ELSE [i \in DOMAIN paragraph |->
             IF i = 1
             THEN ReplaceInRun([paragraph[1] EXCEPT !.text = ParagraphText(paragraph)], vals, 1)
             ELSE [paragraph[i] EXCEPT !.text = <<>>]]

replace_in_paragraph(paragraph, vals) ==
    IF ~Search(ParagraphText(paragraph)) THEN paragraph
    ELSE [i \in DOMAIN paragraph |-> ReplaceInRun(paragraph[i], vals, 1)]

fill_template(d, vals) ==
    [paragraphs |-> [i \in DOMAIN d.paragraphs |->
                        replace_in_paragraph(d.paragraphs[i], vals)],
     tables |-> [t \in DOMAIN d.tables |->
                   [r \in DOMAIN d.tables[t] |->
                     [c \in DOMAIN d.tables[t][r] |->
                       [p \in DOMAIN d.tables[t][r][c] |->
                          replace_in_paragraph(d.tables[t][r][c][p], vals)]]]]]

(***************************************************************************)
(* Export pipeline.                                                        *)
(***************************************************************************)
\* invalid_chars = '<>:"/\\|?*'
InvalidChars == <<"<", ">", ":", "\"", "/", "\\", "|", "?", "*">>

\* for char in invalid_chars: name = name.replace(char, ""), from char i on.
RECURSIVE RemoveChars(_, _)
RemoveChars(name, i) ==
    IF i > Len(InvalidChars) THEN name
    ELSE RemoveChars(StrReplace(name, <<InvalidChars[i]>>, <<>>), i + 1)

sanitize_filename(name) == Strip(RemoveChars(name, 1))

sUnknown == <<"U", "n", "k", "n", "o", "w", "n">>
sCoverLetter == <<"C", "o", "v", "e", "r", "L", "e", "t", "t", "e", "r", "_">>
sPdf == <<".", "p", "d", "f">>
sDocx == <<".", "d", "o", "c", "x">>

\* safe_company = sanitize_filename(company_name) if company_name else "Unknown"
SafeCompany(company_name) ==
    IF company_name # <<>> THEN sanitize_filename(company_name) ELSE sUnknown

\* f"CoverLetter_{safe_company}_{date_str}.pdf"
PdfName(safe_company, date_str) ==
    sCoverLetter \o safe_company \o <<"_">> \o date_str \o sPdf

\* f"CoverLetter_{safe_company}_{date_str}_{counter}.pdf"
PdfNameNumbered(safe_company, date_str, counter) ==
    sCoverLetter \o safe_company \o <<"_">> \o date_str \o <<"_">>
        \o IntToStr(counter) \o sPdf

\* while final_pdf_path.exists(): the first numbered name, from counter on,
\* that is not a file of the output directory.
RECURSIVE NextFree(_, _, _, _)
NextFree(files, safe_company, date_str, counter) ==
    IF PdfNameNumbered(safe_company, date_str, counter) \in files
    THEN NextFree(files, safe_company, date_str, counter + 1)
    ELSE PdfNameNumbered(safe_company, date_str, counter)

FinalNameOverwrite(files, safe_company, date_str) == PdfName(safe_company, date_str)

\* The final name chosen by lines 149-157.
FinalName(files, safe_company, date_str) ==
    IF PdfName(safe_company, date_str) \in files
    THEN NextFree(files, safe_company, date_str, 1)
    ELSE PdfName(safe_company, date_str)

RemoveFile(dir, name) == [n \in (DOMAIN dir) \ {name} |-> dir[n]]

WriteFile(dir, name, content) ==
    [n \in (DOMAIN dir) \cup {name} |-> IF n = name THEN content ELSE dir[n]]

\* Path.rename(target)
RenameFile(dir, name, target) == WriteFile(RemoveFile(dir, name), target, dir[name])

CleanupNever(tmp, temp_docx) == tmp

\* finally: if os.path.exists(temp_docx): os.remove(temp_docx)
Cleanup(tmp, temp_docx) == IF temp_docx \in tmp THEN tmp \ {temp_docx} ELSE tmp

ConverterFailedIgnoringStatus(rc) == FALSE

\* if result.returncode != 0
ConverterFailed(rc) == rc # 0

NoPath == <<>>

\* What the environment does during one call: the stem of the temporary file
\* name, which call raises ("none", "save", "run", "rename"), the converter's
\* exit status and whether it wrote <stem>.pdf into the output directory.
\* The call's outcome: the output directory and temporary directory after it,
\* the returned path (NoPath for None) and whether an exception left it.
save_as_pdf(dir, tmp, now, serial, company_name, env) ==
    LET date_str == FormatDate(now)
        safe_company == SafeCompany(company_name)
        temp_docx == env.stem \o sDocx
        tmp1 == tmp \cup {temp_docx}
        temp_pdf_name == env.stem \o sPdf
        dir1 == IF env.raises \in {"save", "run"} \/ ~env.wrote THEN dir
                ELSE WriteFile(dir, temp_pdf_name, serial)
        final == FinalName(DOMAIN dir1, safe_company, date_str)
        base == [date |-> date_str, safe |-> safe_company, temp_docx |-> temp_docx,
                 temp_pdf |-> temp_pdf_name, tmp |-> Cleanup(tmp1, temp_docx)]
    IN  IF env.raises \in {"save", "run"}
        THEN base @@ [dir |-> dir1, result |-> NoPath, raised |-> TRUE]
        ELSE IF ConverterFailed(env.rc)
        THEN base @@ [dir |-> dir1, result |-> NoPath, raised |-> FALSE]
        ELSE IF temp_pdf_name \in DOMAIN dir1
        THEN IF env.raises = "rename"
             THEN base @@ [dir |-> dir1, result |-> NoPath, raised |-> TRUE]
             ELSE base @@ [dir |-> RenameFile(dir1, temp_pdf_name, final),
                           result |-> final, raised |-> FALSE]
        ELSE base @@ [dir |-> dir1, result |-> NoPath, raised |-> FALSE]

(***************************************************************************)
(* Session driver: main().                                                 *)
(***************************************************************************)
sExit == <<"e", "x", "i", "t">>
sCompanyName == <<"C", "o", "m", "p", "a", "n", "y", " ", "N", "a", "m", "e">>
sCompany == <<"C", "o", "m", "p", "a", "n", "y">>
sEmployer == <<"E", "m", "p", "l", "o", "y", "e", "r">>

IsDigit(c) == c \in Range(Digits)

DigitValue(c) == (CHOOSE i \in 1..10 : Digits[i] = c) - 1

RECURSIVE DigitsValue(_, _)
DigitsValue(s, acc) ==
    IF s = <<>> THEN acc
    ELSE IF s[1] = "_" THEN DigitsValue(Tail(s), acc)
    ELSE DigitsValue(Tail(s), 10 * acc + DigitValue(s[1]))

\* int(choice) on a stripped string: an optional sign, then digits that single
\* underscores may separate; ok is FALSE where int raises ValueError.
ParseInt(s) ==
    LET signed == s # <<>> /\ s[1] \in {"+", "-"}
        body == IF signed THEN Tail(s) ELSE s
        wellFormed ==
            /\ body # <<>>
            /\ \A i \in 1..Len(body) : IsDigit(body[i]) \/ body[i] = "_"
            /\ IsDigit(body[1]) /\ IsDigit(body[Len(body)])
            /\ \A i \in 1..(Len(body) - 1) : ~(body[i] = "_" /\ body[i + 1] = "_")
    IN  IF ~wellFormed THEN [ok |-> FALSE, val |-> 0]
        ELSE [ok |-> TRUE,
              val |-> IF signed /\ s[1] = "-" THEN 0 - DigitsValue(body, 0)
                      ELSE DigitsValue(body, 0)]

\* input("\nSelect template number: ").strip().lower()
MenuChoice(line) == Lower(Strip(line))

\* values.get("Company Name") or values.get("Company") or values.get("Employer") or ""
CompanyOf(vals) ==
    IF DictGet(vals, sCompanyName) # <<>> THEN DictGet(vals, sCompanyName)
    ELSE IF DictGet(vals, sCompany) # <<>> THEN DictGet(vals, sCompany)
    ELSE IF DictGet(vals, sEmployer) # <<>> THEN DictGet(vals, sEmployer)
    ELSE <<>>

(***************************************************************************)
(* The inputs of the model.                                                *)
(***************************************************************************)
Run(text, bold) == [text |-> text, bold |-> bold]

NoDoc == [paragraphs |-> <<>>, tables |-> <<>>]

\* Templates/: a letter without fields, a letter with the fields Company and
\* Date in the body and Employer in a table cell, and a letter whose field
\* Company is split over two runs.
TemplatePlain ==
    [paragraphs |-> << <<Run(<<"H", "e", "l", "l", "o">>, FALSE)>> >>, tables |-> <<>>]

TemplateLetter ==
    [paragraphs |-> << <<Run(<<"T", "o", " ">>, FALSE), Run(<<"[", "C", "o", "m", "p", "a", "n", "y", "]">>, TRUE)>>,
                       <<Run(<<"[", "D", "a", "t", "e", "]">>, FALSE)>> >>,
     tables |-> << << << << <<Run(<<"[", "E", "m", "p", "l", "o", "y", "e", "r", "]">>, FALSE)>> >> >> >> >>]

TemplateSplit ==
    [paragraphs |-> << <<Run(<<"[", "C", "o", "m", "p">>, TRUE), Run(<<"a", "n", "y", "]">>, FALSE)>>,
                       <<Run(<<"[", "d", "a", "t", "e", "]">>, FALSE)>> >>,
     tables |-> <<>>]

TemplateFiles == <<TemplatePlain, TemplateLetter, TemplateSplit>>

\* Lines typed at the menu.
MenuLines ==
    {<<"e", "x", "i", "t">>, <<" ", "E", "x", "i", "t", " ">>, <<"0">>, <<"1">>, <<" ", "2", " ">>, <<"3">>, <<"4">>, <<"-", "1">>, <<"x">>, <<>>, <<"1", "_", "0">>}

\* Lines typed at a value prompt.
ValueLines == {<<>>, <<" ", "A", "c", "m", "e", " ">>, <<"A", "/", "B">>, <<"?", "?">>}

Calendar == <<[year |-> 2024, month |-> 12, day |-> 31], [year |-> 2025, month |-> 1, day |-> 1]>>

\* The position of a date in the calendar.
DayIndex(d) == CHOOSE i \in DOMAIN Calendar : Calendar[i] = d

\* What datetime.now() can report over n successive iterations of a loop
\* entered on date d: dates that start at d or later and never go back.
ClockRuns(d, n) ==
    {[i \in 1..n |-> Calendar[ix[i]]] :
        ix \in {f \in [1..n -> DayIndex(d)..Len(Calendar)] :
                   \A i \in 1..n : i > 1 => f[i - 1] <= f[i]}}

\* The date at the end of a loop whose iterations saw the dates now.
ClockEnd(d, now) == IF now = <<>> THEN d ELSE now[Len(now)]

TempStems == {<<"t", "m", "p", "a">>, <<"t", "m", "p", "b">>}

\* What can happen around the converter during one call of save_as_pdf.
Outcomes ==
    {[raises |-> "save", rc |-> 0, wrote |-> FALSE],
     [raises |-> "run", rc |-> 0, wrote |-> FALSE],
     [raises |-> "rename", rc |-> 0, wrote |-> TRUE],
     [raises |-> "none", rc |-> 0, wrote |-> TRUE],
     [raises |-> "none", rc |-> 0, wrote |-> FALSE],
     [raises |-> "none", rc |-> 1, wrote |-> TRUE],
     [raises |-> "none", rc |-> 1, wrote |-> FALSE]}

Envs == {o @@ [stem |-> st] : o \in Outcomes, st \in TempStems}

NoCall ==
    [called |-> FALSE, company |-> <<>>, env |-> [raises |-> "none", rc |-> 0,
     wrote |-> FALSE, stem |-> <<>>], before |-> <<>>, date |-> <<>>, safe |-> <<>>,
     temp_docx |-> <<>>, temp_pdf |-> <<>>, result |-> NoPath, raised |-> FALSE]

EmptyDir == [n \in {} |-> 0]

(***************************************************************************)
(* The session: one action per step of the loop of main().                 *)
(***************************************************************************)
Running == {"menu", "values", "fill", "save"}

docVars == <<doc, orig, placeholders, values, prompted, typed, clock>>
fileVars == <<outputs, tmpdir, exports, last>>

Init ==
    /\ pc = "menu"
    /\ templates \in {<<>>, TemplateFiles}
    /\ doc = NoDoc /\ orig = NoDoc
    /\ placeholders = <<>> /\ values = <<>> /\ prompted = <<>> /\ typed = <<>> /\ clock = <<>>
    /\ outputs = EmptyDir /\ tmpdir = {}
    /\ today = Calendar[1]
    /\ exports = 0
    /\ last = NoCall

\* if not templates: break
NoTemplates ==
    /\ pc = "menu" /\ templates = <<>>
    /\ pc' = "no_templates"
    /\ UNCHANGED <<templates, docVars, fileVars, today>>

\* if choice == "exit": break
ChooseExit ==
    /\ pc = "menu" /\ templates # <<>>
    /\ \E line \in MenuLines : MenuChoice(line) = sExit
    /\ pc' = "exited"
    /\ UNCHANGED <<templates, docVars, fileVars, today>>

\* except ValueError: continue
InvalidInput ==
    /\ pc = "menu" /\ templates # <<>>
    /\ \E line \in MenuLines :
          MenuChoice(line) # sExit /\ ~ParseInt(MenuChoice(line)).ok
    /\ pc' = "menu"
    /\ UNCHANGED <<templates, docVars, fileVars, today>>

\* idx outside 0 <= idx < len(templates): continue
InvalidSelection ==
    /\ pc = "menu" /\ templates # <<>>
    /\ \E line \in MenuLines :
          LET n == ParseInt(MenuChoice(line))
          IN  /\ MenuChoice(line) # sExit /\ n.ok
              /\ ~(0 <= n.val - 1 /\ n.val - 1 < Len(templates))
    /\ pc' = "menu"
    /\ UNCHANGED <<templates, docVars, fileVars, today>>

\* A valid selection: load the template and scan it; without placeholders the
\* loop continues at the menu, otherwise the values are asked for next.
ChooseTemplate ==
    /\ pc = "menu" /\ templates # <<>>
    /\ \E line \in MenuLines :
          LET n == ParseInt(MenuChoice(line))
              idx == n.val - 1
          IN  /\ MenuChoice(line) # sExit /\ n.ok
              /\ 0 <= idx /\ idx < Len(templates)
              /\ doc' = templates[idx + 1]
              /\ orig' = templates[idx + 1]
              /\ placeholders' = extract_placeholders(templates[idx + 1])
              /\ pc' = IF extract_placeholders(templates[idx + 1]) = <<>>
                       THEN "menu" ELSE "values"
    /\ UNCHANGED <<templates, values, prompted, typed, clock, fileVars, today>>

\* values = prompt_for_values(placeholders)
EnterValues ==
    /\ pc = "values"
    /\ \E inputs \in [1..PromptCount(placeholders) -> ValueLines],
          now \in ClockRuns(today, Len(placeholders)) :
          LET r == prompt_for_values(placeholders, inputs, now)
          IN  /\ values' = r.values
              /\ prompted' = r.prompted
              /\ typed' = inputs
              /\ clock' = now
              /\ today' = ClockEnd(today, now)
    /\ pc' = "fill"
    /\ UNCHANGED <<templates, doc, orig, placeholders, fileVars>>

\* fill_template(doc, values)
FillStep ==
    /\ pc = "fill"
    /\ doc' = fill_template(doc, values)
    /\ pc' = "save"
    /\ UNCHANGED <<templates, orig, placeholders, values, prompted, typed, clock, fileVars, today>>

\* One call of save_as_pdf for the company name, with env what the
\* environment does during it.
SaveCall(company_name, env) ==
    LET r == save_as_pdf(outputs, tmpdir, today, exports + 1, company_name, env)
    IN  /\ outputs' = r.dir
        /\ tmpdir' = r.tmp
        /\ exports' = exports + 1
        /\ last' = [called |-> TRUE, company |-> company_name, env |-> env,
                    before |-> outputs, date |-> r.date, safe |-> r.safe,
                    temp_docx |-> r.temp_docx, temp_pdf |-> r.temp_pdf,
                    result |-> r.result, raised |-> r.raised]

\* pdf_path = save_as_pdf(doc, company_name); an exception leaves main().
SaveStep ==
    /\ pc = "save" /\ exports < MaxSessionExports
    /\ \E env \in Envs :
          /\ (env.stem \o sDocx) \notin tmpdir
          /\ SaveCall(CompanyOf(values), env)
          /\ pc' = IF save_as_pdf(outputs, tmpdir, today, exports + 1,
                                  CompanyOf(values), env).raised
                   THEN "crashed" ELSE "menu"
    /\ UNCHANGED <<templates, docVars, today>>

\* Midnight passes while the program runs.
DayTick ==
    /\ pc \in Running \cup {"export"}
    /\ \E i \in 1..(Len(Calendar) - 1) : today = Calendar[i] /\ today' = Calendar[i + 1]
    /\ UNCHANGED <<pc, templates, docVars, fileVars>>

Next ==
    \/ NoTemplates
    \/ ChooseExit
    \/ InvalidInput
    \/ InvalidSelection
    \/ ChooseTemplate
    \/ EnterValues
    \/ FillStep
    \/ SaveStep
    \/ DayTick

Spec == Init /\ [][Next]_vars

(***************************************************************************)
(* The export alone: save_as_pdf called with any company name, on an       *)
(* output directory that may hold artifacts of earlier sessions.           *)
(***************************************************************************)
CompanyNames == {<<>>, <<"A", "c", "m", "e">>, <<"?", "/", " ">>}

\* Output directories left by earlier sessions (content 0: an earlier session).
OldDirs ==
    LET base == PdfName(<<"A", "c", "m", "e">>, FormatDate(Calendar[1]))
        one == PdfNameNumbered(<<"A", "c", "m", "e">>, FormatDate(Calendar[1]), 1)
        three == PdfNameNumbered(<<"A", "c", "m", "e">>, FormatDate(Calendar[1]), 3)
    IN  {EmptyDir,
         [n \in {base} |-> 0],
         [n \in {base, one, three} |-> 0]}

InitExport ==
    /\ pc = "export"
    /\ templates = <<>>
    /\ doc = NoDoc /\ orig = NoDoc
    /\ placeholders = <<>> /\ values = <<>> /\ prompted = <<>> /\ typed = <<>> /\ clock = <<>>
    /\ outputs \in OldDirs /\ tmpdir = {}
    /\ today = Calendar[1]
    /\ exports = 0
    /\ last = NoCall

Export ==
    /\ pc = "export" /\ exports < MaxExports
    /\ \E company_name \in CompanyNames, env \in Envs :
          /\ (env.stem \o sDocx) \notin tmpdir
          /\ SaveCall(company_name, env)
    /\ UNCHANGED <<pc, templates, docVars, today>>

NextExport == Export \/ DayTick

SpecExport == InitExport /\ [][NextExport]_vars

(***************************************************************************)
(* The scanner alone, on every small document.                             *)
(***************************************************************************)
ScanAlphabet == {"[", "]", "A", "B"}

\* Every string over the alphabet of length at most n.
RECURSIVE Strings(_, _)
Strings(alphabet, n) ==
    IF n = 0 THEN {<<>>}
    ELSE LET shorter == Strings(alphabet, n - 1)
         IN  shorter \cup {Append(t, c) : t \in shorter, c \in alphabet}

ScanTexts == Strings(ScanAlphabet, MaxTextLen)

CellTexts == {<<>>, <<"[", "A", "]">>, <<"[", "B", "]", "[", "A", "]">>, <<"[", "]">>}

\* A document with one top-level paragraph and one table of one cell.
ScanDoc(text, cellText) ==
    [paragraphs |-> << <<Run(text, FALSE)>> >>,
     tables |-> << << << << <<Run(cellText, FALSE)>> >> >> >> >>]

InitScan ==
    /\ pc = "scan"
    /\ templates = <<>>
    /\ \E text \in ScanTexts, cellText \in CellTexts :
          doc = ScanDoc(text, cellText) /\ orig = ScanDoc(text, cellText)
    /\ placeholders = <<>> /\ values = <<>> /\ prompted = <<>> /\ typed = <<>> /\ clock = <<>>
    /\ outputs = EmptyDir /\ tmpdir = {}
    /\ today = Calendar[1]
    /\ exports = 0
    /\ last = NoCall

\* placeholders = extract_placeholders(doc)
Scan ==
    /\ pc = "scan"
    /\ placeholders' = extract_placeholders(doc)
    /\ pc' = "scanned"
    /\ UNCHANGED <<templates, doc, orig, values, prompted, typed, clock, fileVars, today>>

NextScan == Scan

SpecScan == InitScan /\ [][NextScan]_vars

(***************************************************************************)
(* The value collector alone, on every short list of distinct names.       *)
(***************************************************************************)
NamePool == {<<"d", "a", "t", "e">>, <<"D", "a", "t", "e">>, <<"D", "A", "T", "E">>, <<"d", "a", "t", "e", "s">>, <<"C", "o", "m", "p", "a", "n", "y">>, <<" ", "d", "a", "t", "e">>}

\* The lists of distinct names of length at most n.
RECURSIVE DistinctLists(_, _)
DistinctLists(pool, n) ==
    IF n = 0 THEN {<<>>}
    ELSE LET shorter == DistinctLists(pool, n - 1)
         IN  shorter \cup UNION {{Append(l, x) : x \in pool \ Range(l)} : l \in shorter}

PromptLines ==
    ValueLines \cup {<<"\t", " ", "x", " ", "y", " ", "\n">>, <<"", "x", " ">>}

InitPrompt ==
    /\ pc = "values"
    /\ templates = <<>>
    /\ doc = NoDoc /\ orig = NoDoc
    /\ placeholders \in DistinctLists(NamePool, MaxNames)
    /\ values = <<>> /\ prompted = <<>> /\ typed = <<>> /\ clock = <<>>
    /\ outputs = EmptyDir /\ tmpdir = {}
    /\ today \in Range(Calendar)
    /\ exports = 0
    /\ last = NoCall

Prompt ==
    /\ pc = "values"
    /\ \E inputs \in [1..PromptCount(placeholders) -> PromptLines],
          now \in ClockRuns(today, Len(placeholders)) :
          LET r == prompt_for_values(placeholders, inputs, now)
          IN  /\ values' = r.values
              /\ prompted' = r.prompted
              /\ typed' = inputs
              /\ clock' = now
              /\ today' = ClockEnd(today, now)
    /\ pc' = "fill"
    /\ UNCHANGED <<templates, doc, orig, placeholders, fileVars>>

NextPrompt == Prompt

SpecPrompt == InitPrompt /\ [][NextPrompt]_vars

(***************************************************************************)
(* The substitutor alone: fill_template on every small document, with the  *)
(* dict prompt_for_values would build for it and with other dicts.         *)
(***************************************************************************)
FillAlphabet == {"[", "]", "A"}

FirstRunTexts == Strings(FillAlphabet, MaxRunLen)

SecondRunTexts == {<<>>, <<"]">>, <<"[", "A", "]">>, <<"A", "]">>}

FillCellTexts == {<<>>, <<"[", "A", "]">>, <<"[", "[", "A", "]", "]">>, <<"[", "B", "]">>}

FillValues == {<<>>, <<"A">>, <<"[", "A", "]">>, <<"]">>}

KeyPool == {<<"A">>, <<"B">>}

\* A document with one top-level paragraph of two runs, the first bold, and
\* one table of one cell.
FillDoc(first, second, cellText) ==
    [paragraphs |-> << <<Run(first, TRUE), Run(second, FALSE)>> >>,
     tables |-> << << << << <<Run(cellText, FALSE)>> >> >> >> >>]

\* The dicts with these keys, in this order, and values of FillValues.
DictsOver(keys) ==
    {[i \in DOMAIN keys |-> [key |-> keys[i], value |-> vs[i]]]
     : vs \in [DOMAIN keys -> FillValues]}

InitFill ==
    /\ pc = "fill"
    /\ templates = <<>>
    /\ \E first \in FirstRunTexts, second \in SecondRunTexts, cellText \in FillCellTexts :
          /\ doc = FillDoc(first, second, cellText)
          /\ orig = doc
          /\ placeholders = extract_placeholders(doc)
    /\ values \in DictsOver(placeholders) \cup DictsOver(Reverse(placeholders))
                  \cup UNION {DictsOver(keys) : keys \in DistinctLists(KeyPool, MaxNames)}
    /\ prompted = <<>> /\ typed = <<>> /\ clock = <<>>
    /\ outputs = EmptyDir /\ tmpdir = {}
    /\ today = Calendar[1]
    /\ exports = 0
    /\ last = NoCall

NextFill == FillStep

SpecFill == InitFill /\ [][NextFill]_vars

(***************************************************************************)
(* Properties.                                                             *)
(***************************************************************************)
\* Every paragraph of a document: the top-level ones, then those of the cells.
AllParagraphs(d) ==
    d.paragraphs \o
    Concat([t \in DOMAIN d.tables |->
              Concat([r \in DOMAIN d.tables[t] |->
                        Concat([c \in DOMAIN d.tables[t][r] |-> d.tables[t][r][c]])])])

\* A document with every run's text blanked: its paragraphs, tables, runs and
\* their formatting.
Blank(paragraph) == [i \in DOMAIN paragraph |-> [paragraph[i] EXCEPT !.text = <<>>]]

Shape(d) ==
    [paragraphs |-> [i \in DOMAIN d.paragraphs |-> Blank(d.paragraphs[i])],
     tables |-> [t \in DOMAIN d.tables |->
                   [r \in DOMAIN d.tables[t] |->
                     [c \in DOMAIN d.tables[t][r] |->
                       [p \in DOMAIN d.tables[t][r][c] |-> Blank(d.tables[t][r][c][p])]]]]]

HasPrefix(s, prefix) == Len(s) >= Len(prefix) /\ SubSeq(s, 1, Len(prefix)) = prefix

IsArtifact(name) == HasPrefix(name, sCoverLetter)

Artifacts(dir) == [n \in {m \in DOMAIN dir : IsArtifact(m)} |-> dir[n]]

NotInvalid(c) == c \notin Range(InvalidChars)

\* The name without the invalid characters, trimmed; "Unknown" when that is empty.
ExpectedCompanyPart(name) ==
    IF Strip(SelectSeq(name, NotInvalid)) = <<>> THEN sUnknown
    ELSE Strip(SelectSeq(name, NotInvalid))

\* C1: for every company name passed to save_as_pdf, the company part of the
\* output file name is the name without the characters < > : " / \ | ? * and
\* trimmed, and it is "Unknown" when nothing is left of the name.
C1_CompanyPart ==
    last.called =>
        /\ last.safe = ExpectedCompanyPart(last.company)
        /\ last.result # NoPath =>
              HasPrefix(last.result,
                        sCoverLetter \o ExpectedCompanyPart(last.company) \o <<"_">>)

\* C2: a call of save_as_pdf leaves every file that was in the output
\* directory before it (other than the converter's own <stem>.pdf) in place
\* with its content; a successful call returns the base name when that was
\* free, and otherwise the name numbered with the smallest k >= 1 that was
\* free, and the returned file is new.
C2_NeverOverwrites ==
    last.called =>
        LET base == PdfName(last.safe, last.date)
            old == DOMAIN last.before
        IN  /\ \A n \in old \ {last.temp_pdf} :
                  n \in DOMAIN outputs /\ outputs[n] = last.before[n]
            /\ last.result # NoPath =>
                  /\ last.result \in DOMAIN outputs
                  /\ last.result \notin old
                  /\ IF base \notin old THEN last.result = base
                     ELSE \E k \in 1..(Cardinality(old) + 1) :
                             /\ last.result = PdfNameNumbered(last.safe, last.date, k)
                             /\ \A j \in 1..(k - 1) :
                                   PdfNameNumbered(last.safe, last.date, j) \in old

\* The second export of a session for a company whose base name and _1 were
\* taken: it lands on _2, and the older artifacts keep their content.
C2_Witness ==
    /\ last.called /\ exports = 2
    /\ last.result = PdfNameNumbered(last.safe, last.date, 2)
    /\ PdfName(last.safe, last.date) \in DOMAIN outputs
    /\ outputs[PdfName(last.safe, last.date)] = 0
    /\ outputs[PdfNameNumbered(last.safe, last.date, 1)] = 1

\* C3: when a call of save_as_pdf has ended, by a return or by an exception,
\* the temporary .docx file it created is no longer in the temporary directory.
C3_TempFileRemoved ==
    last.called => last.temp_docx \notin tmpdir

\* A call that an exception left while renaming.
C3_Witness ==
    /\ last.called /\ last.raised /\ last.env.raises = "rename"
    /\ last.temp_docx \notin tmpdir

\* The occurrences of the token of every key lie within one run each.
RunStart(paragraph, r) == Len(ParagraphText(SubSeq(paragraph, 1, r - 1))) + 1

TokensWhole(d, vals) ==
    \A i \in DOMAIN AllParagraphs(d) : \A k \in Keys(vals) :
        LET paragraph == AllParagraphs(d)[i]
            text == ParagraphText(paragraph)
            n == Len(Bracketed(k))
        IN  \A at \in 1..(Len(text) - n + 1) :
               SubSeq(text, at, at + n - 1) = Bracketed(k) =>
                  \E r \in DOMAIN paragraph :
                     /\ RunStart(paragraph, r) <= at
                     /\ at + n - 1 <= RunStart(paragraph, r) + Len(paragraph[r].text) - 1

NoTokenLeft(d, vals) ==
    \A i \in DOMAIN AllParagraphs(d) : \A k \in Keys(vals) :
        ~Contains(ParagraphText(AllParagraphs(d)[i]), Bracketed(k))

ExactKeys == Keys(values) = Range(extract_placeholders(orig))

\* C4 as stated: for a dict whose keys are exactly extract_placeholders(D),
\* with any values, no token [Name] of a key is left after fill_template when
\* every token of D lay within one run.
C4_Original ==
    (pc = "save" /\ ExactKeys /\ TokensWhole(orig, values)) => NoTokenLeft(doc, values)

\* C4 as amended: the same, for dicts in which no key and no value contains
\* the character "[".
C4_NoTokenLeft ==
    (/\ pc = "save" /\ ExactKeys /\ TokensWhole(orig, values)
     /\ \A i \in DOMAIN values :
           "[" \notin Range(values[i].key) /\ "[" \notin Range(values[i].value))
    => NoTokenLeft(doc, values)

\* Two fields, one of them in the table cell, both replaced.
C4_Witness ==
    /\ pc = "save" /\ ExactKeys /\ TokensWhole(orig, values)
    /\ \A i \in DOMAIN values :
          "[" \notin Range(values[i].key) /\ "[" \notin Range(values[i].value)
    /\ Len(values) = 2
    /\ \E i \in DOMAIN values : values[i].value = <<"]">>
    /\ doc.paragraphs # orig.paragraphs /\ doc.tables # orig.tables

\* A match of the pattern, said without the scanner: a "[", then one or more
\* characters other than "]", then a "]".
HasBracketPair(text) ==
    \E a, b \in 1..Len(text) :
        /\ a + 1 < b /\ text[a] = "[" /\ text[b] = "]"
        /\ \A k \in (a + 1)..(b - 1) : text[k] # "]"

\* C5: extract_placeholders returns a list in ascending string order without
\* duplicates, of non-empty names without "]", that holds the names of the
\* top-level paragraphs and of the table-cell paragraphs and no others; it is
\* empty exactly when no paragraph text holds a bracket pair around a name.
C5_ScanResult ==
    pc = "scanned" =>
        /\ \A i, j \in DOMAIN placeholders :
              i < j => StrLess(placeholders[i], placeholders[j])
        /\ \A i \in DOMAIN placeholders :
              placeholders[i] # <<>> /\ "]" \notin Range(placeholders[i])
        /\ \A i \in DOMAIN AllParagraphs(doc) :
              Range(FindAll(ParagraphText(AllParagraphs(doc)[i]))) \subseteq Range(placeholders)
        /\ \A n \in Range(placeholders) : \E i \in DOMAIN AllParagraphs(doc) :
              Contains(ParagraphText(AllParagraphs(doc)[i]), Bracketed(n))
        /\ (placeholders = <<>>) <=>
              (\A i \in DOMAIN AllParagraphs(doc) :
                  ~HasBracketPair(ParagraphText(AllParagraphs(doc)[i])))

\* A name found twice and a name found only in the table cell, listed once
\* each and in order although the text has them the other way round.
C5_Witness ==
    /\ pc = "scanned"
    /\ ParagraphText(doc.paragraphs[1]) = <<"[", "B", "]">>
    /\ ParagraphText(AllParagraphs(doc)[2]) = <<"[", "B", "]", "[", "A", "]">>
    /\ placeholders = <<<<"A">>, <<"B">>>>

\* C6: no name that extract_placeholders_from_text reports for a paragraph
\* text contains "[" or "]".
C6_NoBracketInName ==
    pc = "scanned" =>
        \A i \in DOMAIN AllParagraphs(doc) :
            \A n \in extract_placeholders_from_text(ParagraphText(AllParagraphs(doc)[i])) :
                "[" \notin Range(n) /\ "]" \notin Range(n)

\* C7: a call of save_as_pdf in which the converter ran and exited with a
\* non-zero status, or exited with zero while <stem>.pdf is not in the output
\* directory, returns None, leaves the CoverLetter_ files as they were, and
\* main() is at the menu again.
C7_ConverterFailure ==
    [][(/\ pc = "save" /\ exports' = exports + 1
        /\ last'.env.raises \notin {"save", "run"}
        /\ \/ last'.env.rc # 0
           \/ ~last'.env.wrote /\ last'.temp_pdf \notin DOMAIN outputs)
       => (/\ last'.result = NoPath
           /\ ~last'.raised
           /\ Artifacts(outputs') = Artifacts(outputs)
           /\ pc' = "menu")]_vars

\* The converter exited with a non-zero status although it wrote its output.
C7_Witness ==
    /\ pc = "menu" /\ last.called
    /\ last.env.raises = "none" /\ last.env.rc # 0 /\ last.env.wrote
    /\ last.result = NoPath
    /\ last.temp_pdf \in DOMAIN outputs

IsYMD(s) ==
    /\ Len(s) = 10
    /\ \A i \in 1..10 : IF i \in {5, 8} THEN s[i] = "-" ELSE IsDigit(s[i])

\* v is line without its leading and trailing whitespace.
IsTrimOf(v, line) ==
    /\ v # <<>> => v[1] \notin Whitespace /\ v[Len(v)] \notin Whitespace
    /\ \E a \in 0..(Len(line) - Len(v)) :
          /\ SubSeq(line, a + 1, a + Len(v)) = v
          /\ \A i \in (1..a) \cup ((a + Len(v) + 1)..Len(line)) : line[i] \in Whitespace

\* C8: for a list of distinct names prompt_for_values returns a dict whose
\* keys are the names, each once and in order; a name equal to "date" in any
\* case gets today's date (the date at the moment the loop reaches the name)
\* as YYYY-MM-DD without a prompt; every other name is prompted for once, in
\* order, and gets the typed line trimmed.
C8_ValueSet ==
    pc = "fill" =>
        /\ [i \in DOMAIN values |-> values[i].key] = placeholders
        /\ prompted = SelectSeq(placeholders, LAMBDA n : Lower(n) # sDate)
        /\ Len(typed) = Len(prompted)
        /\ Len(clock) = Len(placeholders)
        /\ \A i \in DOMAIN values :
              IF Lower(values[i].key) = sDate
              THEN /\ values[i].value = FormatDate(clock[i])
                   /\ IsYMD(values[i].value)
                   /\ values[i].key \notin Range(prompted)
              ELSE \E k \in DOMAIN prompted :
                      /\ prompted[k] = values[i].key
                      /\ IsTrimOf(values[i].value, typed[k])

\* "Date" filled in without a prompt, and a typed line with whitespace around it.
C8_Witness ==
    /\ pc = "fill" /\ Len(values) = 2
    /\ values[1].key = <<"D", "a", "t", "e">> /\ values[1].value = FormatDate(today)
    /\ prompted = <<values[2].key>>
    /\ typed = <<<<"\t", " ", "x", " ", "y", " ", "\n">>>>
    /\ values[2].value = <<"x", " ", "y">>

\* C9: the session ends only by the input exit or by an empty template list;
\* values are asked for, the document is filled and exported only for a loaded
\* template that has placeholders, and it is exported only with a value for
\* each of them.
C9_SessionLoop ==
    /\ pc \notin Running => pc \in {"exited", "no_templates"}
    /\ pc \in {"values", "fill", "save"} =>
          /\ orig \in Range(templates)
          /\ placeholders # <<>>
    /\ pc \in {"fill", "save"} => Keys(values) = Range(placeholders)

\* The text of every run of the document, paragraph by paragraph.
RunTexts(d) ==
    UNION {{AllParagraphs(d)[i][j].text : j \in DOMAIN AllParagraphs(d)[i]}
           : i \in DOMAIN AllParagraphs(d)}

\* The token of the key occurs in no run of the document.
KeyAbsent(d, k) == \A text \in RunTexts(d) : ~Contains(text, Bracketed(k))

\* The dict without the key.
DictWithout(vals, k) == SelectSeq(vals, LAMBDA e : e.key # k)

\* A "[" is followed by another "[" with no "]" between them.
NestedBracket(text) ==
    \E a, b \in 1..Len(text) :
        /\ a < b /\ text[a] = "[" /\ text[b] = "["
        /\ \A m \in (a + 1)..(b - 1) : text[m] # "]"

\* Structure, dict and the runs without a token of any key are left alone.
RunLocalStep ==
    /\ Shape(doc') = Shape(doc)
    /\ values' = values
    /\ \A i \in DOMAIN AllParagraphs(doc) : \A j \in DOMAIN AllParagraphs(doc)[i] :
          (\A k \in Keys(values) :
              ~Contains(AllParagraphs(doc)[i][j].text, Bracketed(k)))
          => AllParagraphs(doc')[i][j].text = AllParagraphs(doc)[i][j].text

\* Every key whose token occurs in no run changes nothing: the document is
\* filled as it is with the dict without that key.
AbsentKeysStep ==
    \A k \in Keys(values) :
        KeyAbsent(doc, k) => doc' = fill_template(doc, DictWithout(values, k))

\* No key holds "]", no value holds "[", and no run holds a nested "[".
PlainBrackets ==
    /\ \A i \in DOMAIN values :
          "]" \notin Range(values[i].key) /\ "[" \notin Range(values[i].value)
    /\ \A text \in RunTexts(orig) : ~NestedBracket(text)

\* C10 as stated: fill_template leaves the paragraphs, the tables, the runs
\* and their formatting as they are, leaves the dict as it is, and leaves the
\* text of every run that holds no complete token [Name] of a key as it is, so
\* a token split over two runs stays; and a key whose token occurs nowhere in
\* the document changes nothing, whatever the other keys and values are.
C10_Original ==
    [][(pc = "fill" /\ pc' = "save") => (RunLocalStep /\ AbsentKeysStep)]_vars

\* C10 as amended: the same, where a key whose token occurs nowhere in the
\* document changes nothing when no key holds "]", no value holds "[" and no
\* run holds a "[" followed by another "[" with no "]" between them.
C10_RunLocal ==
    [][(pc = "fill" /\ pc' = "save") =>
        /\ RunLocalStep
        /\ (PlainBrackets /\ orig = doc) => AbsentKeysStep]_vars

\* The token [A] split over the two runs of the first paragraph stays, the
\* same token within the run of the table cell is replaced, and the key B,
\* whose token occurs nowhere, changes nothing.
C10_Witness ==
    /\ pc = "save"
    /\ Keys(values) = {<<"A">>, <<"B">>}
    /\ PlainBrackets
    /\ KeyAbsent(orig, <<"B">>)
    /\ DictGet(values, <<"B">>) # <<>>
    /\ orig.paragraphs[1][1].text = <<"[", "A">>
    /\ orig.paragraphs[1][2].text = <<"]">>
    /\ orig.tables[1][1][1][1][1].text = <<"[", "A", "]">>
    /\ doc.paragraphs = orig.paragraphs
    /\ doc.tables # orig.tables
    /\ doc = fill_template(orig, DictWithout(values, <<"B">>))

====
